---- MODULE Spec2Model ----
(***************************************************************************)
(* Model of cityLink.c: the adjacency matrix of a set of cities, the       *)
(* recursive path search findPath, the transitive closure computed by      *)
(* calculateTransitiveClosure, and the option loop of run with its four    *)
(* handlers implementI / implementR / implementP / implementO.             *)
(*                                                                         *)
(* Three specifications share the variables:                               *)
(*   SpecClosure  one call of calculateTransitiveClosure on a loaded       *)
(*                matrix, one step per loop nest of the function;          *)
(*   SpecPath     one top-level call of findPath, one step per entry,      *)
(*                loop iteration and return of the recursion               *)
(*                (SpecPathFair adds the fairness of a running process);   *)
(*   SpecRun      one invocation of the program, one step per option.      *)
(***************************************************************************)
EXTENDS Integers, Sequences, FiniteSets, TLC

\* ------------------------------------------------------------------ bounds
\* largest number of cities of SpecClosure
MaxN == 5
\* largest number of cities of SpecPath
MaxPathN == 4
\* largest number of 1 cells of a matrix of SpecClosure and SpecPath
MaxEdges == 4
\* largest number of cities of the input file of SpecRun
MaxRunN == 2
\* largest number of options on the command line of SpecRun
MaxArgs == 3

VARIABLES
    N,                  \* int N: the number of cities
    cityMatrix,         \* int **cityMatrix: the adjacency matrix
    transitiveClosure,  \* calculateTransitiveClosure: int **transitiveClosure
    previous,           \* calculateTransitiveClosure: int **previous
    repeat,             \* calculateTransitiveClosure: int repeat
    emitted,            \* the "u -> w" lines printed so far, as pairs <<u, w>>
    nDirect,            \* number of lines printed by the loop of lines 344-353
    passStart,          \* number of lines printed when the last pass began
    passAdds,           \* per pass of the while loop, the number of pairs it set
    cpc,                \* position inside calculateTransitiveClosure
    sourceCity,         \* implementR: int sourceCity
    destinationCity,    \* implementR: int destinationCity
    dfs,                \* the state of the findPath recursion
    argv,               \* the options of the command line, in order
    optind,             \* getopt: index of the next option
    filename,           \* run: char *filename
    file,               \* the input file named by -i
    heap,               \* every matrix createMatrix returned: "live" or "freed"
    out,                \* what was written to standard output and the output file
    err,                \* the kind of message written to the error stream
    status,             \* "running", "returned", "exit_failure" or "crash"
    engineRuns          \* the engines started, each with whether a file was loaded

cvars == <<transitiveClosure, previous, repeat, emitted, nDirect, passStart,
           passAdds, cpc>>
pvars == <<sourceCity, destinationCity, dfs>>
rvars == <<argv, optind, filename, file, heap, out, err, status, engineRuns>>
vars == <<N, cityMatrix, cvars, pvars, rvars>>

\* ---------------------------------------------------------------- matrices
NULL == "NULL"

Idx(n) == 0 .. (n - 1)

\* createMatrix: an n x n matrix, every element zero
createMatrix(n) == [i \in Idx(n) |-> [j \in Idx(n) |-> 0]]

Cells(n) == Idx(n) \X Idx(n)

\* the sets of at most k numbers of 0 .. m-1; `exact` is TRUE for the sets of
\* exactly k numbers (each set is built once, smallest number first)
RECURSIVE SubsetsUpTo(_, _, _)
SubsetsUpTo(m, k, exact) ==
    IF k = 0 THEN {{}}
    ELSE LET grown == UNION {{e \cup {c} : c \in {x \in 0 .. (m - 1) : \A y \in e : x > y}} :
                                e \in SubsetsUpTo(m, k - 1, TRUE)}
         IN  IF exact THEN grown ELSE grown \cup SubsetsUpTo(m, k - 1, FALSE)

\* the matrix readAdjacencyMatrix leaves in cityMatrix for a file whose 1
\* cells are the numbers i*n + j of E, in the order the file lists them
MatrixOf(n, E) ==
    [i \in Idx(n) |-> [j \in Idx(n) |-> IF (i * n + j) \in E THEN 1 ELSE 0]]

Matrices(n, maxEdges) == {MatrixOf(n, E) : E \in SubsetsUpTo(n * n, maxEdges, FALSE)}

Range(s) == {s[k] : k \in 1 .. Len(s)}

Last(s) == s[Len(s)]

\* ----------------------------------------------- calculateTransitiveClosure
\* lines 336-340: transitiveClosure[i][j] = cityMatrix[i][j]
CopyMatrix(n, m) == [i \in Idx(n) |-> [j \in Idx(n) |-> m[i][j]]]

\* lines 344-353: the lines printed for the cells u*n+w >= k, u then w ascending
RECURSIVE PrintInitial(_, _, _)
PrintInitial(n, tc, k) ==
    IF k >= n * n THEN <<>>
    ELSE LET u == k \div n
             w == k % n
         IN  (IF tc[u][w] = 1 THEN << <<u, w>> >> ELSE <<>>)
                 \o PrintInitial(n, tc, k + 1)

\* lines 368-369: the two outer loops visit (u, v) in this order, k = u*n + v
OuterPair_vDescending(n, k) == <<k \div n, (n - 1) - (k % n)>>

OuterPair(n, k) == <<k \div n, k % n>>

\* line 372: the test that decides whether (u, w) is set now
Discovers_NoDiagonalGuard(tc, A, u, v, w) == A[v][w] # 0 /\ tc[u][w] = 0

Discovers_Transposed(tc, A, u, v, w) == A[w][v] # 0 /\ tc[u][w] = 0 /\ u # w

Discovers(tc, A, u, v, w) == A[v][w] # 0 /\ tc[u][w] = 0 /\ u # w

\* lines 373-380: set the cell, raise the flag, print the pair
AddPair_FlagOnlyAboveDiagonal(acc, u, w) ==
    [tc     |-> [acc.tc EXCEPT ![u][w] = 1],
     repeat |-> IF u < w THEN 1 ELSE acc.repeat,
     out    |-> Append(acc.out, <<u, w>>)]

AddPair(acc, u, w) ==
    [tc     |-> [acc.tc EXCEPT ![u][w] = 1],
     repeat |-> 1,
     out    |-> Append(acc.out, <<u, w>>)]

\* lines 371-383: the loop over w, from w on; acc = [tc, repeat, out]
RECURSIVE InnerFrom(_, _, _, _, _, _)
InnerFrom(n, A, acc, u, v, w) ==
    IF w >= n THEN acc
    ELSE InnerFrom(n, A,
                   IF Discovers(acc.tc, A, u, v, w) THEN AddPair(acc, u, w) ELSE acc,
                   u, v, w + 1)

\* lines 368-386: the loops over u and v, from iteration k on, with the test
\* of line 370 on the snapshot
RECURSIVE PassFrom(_, _, _, _, _)
PassFrom(n, A, prev, acc, k) ==
    IF k >= n * n THEN acc
    ELSE LET uv == OuterPair(n, k)
         IN  PassFrom(n, A, prev,
                      IF prev[uv[1]][uv[2]] # 0
                      THEN InnerFrom(n, A, acc, uv[1], uv[2], 0) ELSE acc,
                      k + 1)

\* lines 359-386: one iteration of the while loop, from closure tc
Pass(n, A, tc) ==
    PassFrom(n, A, CopyMatrix(n, tc), [tc |-> tc, repeat |-> 0, out |-> <<>>], 0)

\* lines 358-387: the while loop, from closure tc with printed lines `lines`
RECURSIVE WhileRepeat(_, _, _, _)
WhileRepeat(n, A, tc, lines) ==
    LET r == Pass(n, A, tc)
    IN  IF r.repeat = 1 THEN WhileRepeat(n, A, r.tc, lines \o r.out)
        ELSE [tc |-> r.tc, out |-> lines \o r.out]

\* lines 330-392: the final closure matrix and all the lines printed
calculateTransitiveClosure(n, A) ==
    WhileRepeat(n, A, CopyMatrix(n, A), PrintInitial(n, CopyMatrix(n, A), 0))

\* ------------------------------------------------------------------ findPath
\* the value of ret while no call has just returned
NoReturn == -1

\* a cell of path[] that malloc returned and nothing has written yet
Unwritten == -1

\* implementR lines 282-284: visited = calloc, path = malloc, nothing called yet
NewSearch(n) ==
    [pc      |-> "idle",
     visited |-> [i \in Idx(n) |-> 0],
     path    |-> [i \in Idx(n) |-> Unwritten],
     stack   |-> <<>>,
     ret     |-> NoReturn,
     printed |-> <<>>,
     calls   |-> 0,
     result  |-> NoReturn]

Top(st) == st.stack[Len(st.stack)]

Pop(stack) == SubSeq(stack, 1, Len(stack) - 1)

\* lines 204-206 of a call findPath(v, destination, visited, path, pathIndex):
\* a frame is one active call, with its source, its pathIndex after line 206
\* and its loop variable i; writing path[pathIndex] with pathIndex >= n is a
\* write past the end of the malloc'ed array
Enter(n, st, v, pathIndex) ==
    IF pathIndex >= n
    THEN [st EXCEPT !.pc = "overflow"]
    ELSE [st EXCEPT !.pc = "search",
                    !.visited[v] = 1,
                    !.path[pathIndex] = v,
                    !.stack = Append(@, [source |-> v, pathIndex |-> pathIndex + 1, i |-> 0]),
                    !.calls = @ + 1]

\* line 210: source == destination
AtDestination_NotFirstCall(dest, f) == f.source = dest /\ f.pathIndex > 1

AtDestination(dest, f) == f.source = dest

\* line 224: !visited[i] && cityMatrix[source][i]
ShouldRecur_IgnoreVisited(A, st, f) == A[f.source][f.i] # 0

ShouldRecur_Transposed(A, st, f) == st.visited[f.i] = 0 /\ A[f.i][f.source] # 0

ShouldRecur(A, st, f) == st.visited[f.i] = 0 /\ A[f.source][f.i] # 0

\* lines 211-219: print path[0 .. pathIndex-1] and return 1
Found(st) ==
    LET f == Top(st)
    IN  [st EXCEPT !.printed = [k \in 1 .. f.pathIndex |-> st.path[k - 1]],
                   !.stack = Pop(@),
                   !.ret = 1]

\* lines 223-224 when the test fails: i++
Skip(st) == [st EXCEPT !.stack[Len(st.stack)].i = @ + 1]

\* line 225: the recursive call findPath(i, destination, visited, path, pathIndex)
Recur(n, st) == Enter(n, st, Top(st).i, Top(st).pathIndex)

\* lines 225-226: the call returned 1, so this call returns 1
CalleeFound(st) == [st EXCEPT !.stack = Pop(@)]

\* lines 225 and 223: the call returned 0, the loop goes on with i++
CalleeFailed(st) == [st EXCEPT !.stack[Len(st.stack)].i = @ + 1, !.ret = NoReturn]

\* lines 232-233: visited[source] = 0; return 0
Backtrack_KeepVisited(st) == [st EXCEPT !.stack = Pop(@), !.ret = 0]

Backtrack(st) ==
    [st EXCEPT !.visited[Top(st).source] = 0, !.stack = Pop(@), !.ret = 0]

\* implementR line 286: the value the top-level call returned
Return(st) == [st EXCEPT !.pc = "done", !.result = st.ret]

CanFound(dest, st) ==
    /\ st.pc = "search" /\ st.stack # <<>> /\ st.ret = NoReturn
    /\ AtDestination(dest, Top(st))

InLoop(n, dest, st) ==
    /\ st.pc = "search" /\ st.stack # <<>> /\ st.ret = NoReturn
    /\ ~AtDestination(dest, Top(st))
    /\ Top(st).i < n

CanSkip(n, A, dest, st) == InLoop(n, dest, st) /\ ~ShouldRecur(A, st, Top(st))

CanRecur(n, A, dest, st) == InLoop(n, dest, st) /\ ShouldRecur(A, st, Top(st))

CanCalleeFound(st) == st.pc = "search" /\ st.stack # <<>> /\ st.ret = 1

CanCalleeFailed(st) == st.pc = "search" /\ st.stack # <<>> /\ st.ret = 0

CanBacktrack(n, dest, st) ==
    /\ st.pc = "search" /\ st.stack # <<>> /\ st.ret = NoReturn
    /\ ~AtDestination(dest, Top(st))
    /\ Top(st).i >= n

CanReturn(st) == st.pc = "search" /\ st.stack = <<>> /\ st.ret # NoReturn

\* one step of the recursion
StepFindPath(n, A, src, dest, st) ==
    CASE st.pc = "idle"            -> Enter(n, st, src, 0)
      [] CanFound(dest, st)        -> Found(st)
      [] CanSkip(n, A, dest, st)   -> Skip(st)
      [] CanRecur(n, A, dest, st)  -> Recur(n, st)
      [] CanCalleeFound(st)        -> CalleeFound(st)
      [] CanCalleeFailed(st)       -> CalleeFailed(st)
      [] CanBacktrack(n, dest, st) -> Backtrack(st)
      [] CanReturn(st)             -> Return(st)
      [] OTHER                     -> st

\* implementR line 286: the whole call findPath(sourceCity, destinationCity, ...)
RECURSIVE RunFindPath(_, _, _, _, _)
RunFindPath(n, A, src, dest, st) ==
    IF st.pc \in {"done", "overflow"} THEN st
    ELSE RunFindPath(n, A, src, dest, StepFindPath(n, A, src, dest, st))

\* ------------------------------------------- states outside a specification
\* the value of the closure variables while calculateTransitiveClosure is not running
IdleClosure ==
    /\ transitiveClosure = NULL /\ previous = NULL /\ repeat = 0
    /\ emitted = <<>> /\ nDirect = 0 /\ passStart = 0 /\ passAdds = <<>>
    /\ cpc = "idle"

\* the value of the run variables while no command line is being processed
IdleRun ==
    /\ argv = <<>> /\ optind = 1 /\ filename = NULL /\ file = NULL
    /\ heap = <<>> /\ out = <<>> /\ err = <<>> /\ status = "running"
    /\ engineRuns = <<>>

\* ------------------------------------- SpecClosure: calculateTransitiveClosure
\* the state at line 330, called with a matrix readAdjacencyMatrix loaded
InitClosure ==
    /\ N \in 1 .. MaxN
    /\ cityMatrix \in Matrices(N, MaxEdges)
    /\ transitiveClosure = NULL /\ previous = NULL /\ repeat = 0
    /\ emitted = <<>> /\ nDirect = 0 /\ passStart = 0 /\ passAdds = <<>>
    /\ cpc = "copy"
    /\ sourceCity = -1 /\ destinationCity = -1 /\ dfs = NULL
    /\ IdleRun

\* lines 333-340
CopyAdjacency ==
    /\ cpc = "copy"
    /\ transitiveClosure' = CopyMatrix(N, cityMatrix)
    /\ cpc' = "print"
    /\ UNCHANGED <<N, cityMatrix, previous, repeat, emitted, nDirect, passStart,
                   passAdds, pvars, rvars>>

\* lines 344-353
PrintDirect ==
    /\ cpc = "print"
    /\ emitted' = PrintInitial(N, transitiveClosure, 0)
    /\ nDirect' = Len(emitted')
    /\ cpc' = "create"
    /\ UNCHANGED <<N, cityMatrix, transitiveClosure, previous, repeat, passStart,
                   passAdds, pvars, rvars>>

\* lines 355-357
CreatePrevious ==
    /\ cpc = "create"
    /\ previous' = createMatrix(N)
    /\ repeat' = 1
    /\ cpc' = "while"
    /\ UNCHANGED <<N, cityMatrix, transitiveClosure, emitted, nDirect, passStart,
                   passAdds, pvars, rvars>>

\* lines 358-387: one iteration of while (repeat)
WhilePass ==
    /\ cpc = "while"
    /\ repeat # 0
    /\ \E r \in {Pass(N, cityMatrix, transitiveClosure)} :
           /\ previous' = CopyMatrix(N, transitiveClosure)
           /\ transitiveClosure' = r.tc
           /\ repeat' = r.repeat
           /\ emitted' = emitted \o r.out
           /\ passStart' = Len(emitted)
           /\ passAdds' = Append(passAdds, Len(r.out))
    /\ UNCHANGED <<N, cityMatrix, nDirect, cpc, pvars, rvars>>

\* line 358 with repeat == 0, then lines 390-391
FreeMatrices ==
    /\ cpc = "while"
    /\ repeat = 0
    /\ transitiveClosure' = "freed"
    /\ previous' = "freed"
    /\ cpc' = "done"
    /\ UNCHANGED <<N, cityMatrix, repeat, emitted, nDirect, passStart, passAdds,
                   pvars, rvars>>

NextClosure ==
    \/ CopyAdjacency
    \/ PrintDirect
    \/ CreatePrevious
    \/ WhilePass
    \/ FreeMatrices

SpecClosure == InitClosure /\ [][NextClosure]_vars

\* --------------------------------------------------- directed walks of a graph
\* the cities one edge after a city of S
Successors(n, A, S) == {w \in Idx(n) : \E v \in S : A[v][w] = 1}

\* the cities at the end of a walk of 1 .. k edges that starts in S
RECURSIVE WalkEnds(_, _, _, _)
WalkEnds(n, A, S, k) ==
    IF k = 0 THEN {}
    ELSE Successors(n, A, S) \cup WalkEnds(n, A, Successors(n, A, S), k - 1)

\* the cities w with a nonempty directed walk from u to w (a shortest one has
\* at most n edges)
WalkTargets(n, A, u) == WalkEnds(n, A, {u}, n)

\* the while loop of calculateTransitiveClosure has been left
LoopExited == (cpc = "while" /\ repeat = 0) \/ cpc = "done"

EmittedPairs == Range(emitted)

\* ------------------------------------------------------ claims of SpecClosure
\* C1 as stated: calculateTransitiveClosure emits (u, w) if and only if the
\* matrix has a nonempty directed walk from u to w, also for u = w on a cycle.
C1_EmitsEveryWalk ==
    LoopExited =>
        \A u \in Idx(N), w \in Idx(N) :
            (<<u, w>> \in EmittedPairs) <=> (w \in WalkTargets(N, cityMatrix, u))

\* C1 as amended: for u # w the pair (u, w) is emitted if and only if the
\* matrix has a nonempty directed walk from u to w; a pair (u, u) is emitted
\* if and only if adjacency[u][u] = 1, whether or not u lies on a longer cycle.
C1_EmitsWalksOffDiagonal ==
    LoopExited =>
        \A u \in Idx(N), w \in Idx(N) :
            (<<u, w>> \in EmittedPairs) <=>
                IF u = w THEN cityMatrix[u][u] = 1
                ELSE w \in WalkTargets(N, cityMatrix, u)

\* a finished run that found pairs in the while loop, on a graph with a city
\* on a cycle that has no self-loop, and one with a self-loop
C1_Witness ==
    /\ LoopExited
    /\ Len(emitted) > nDirect
    /\ \E u \in Idx(N) : cityMatrix[u][u] = 0 /\ u \in WalkTargets(N, cityMatrix, u)
    /\ \E u \in Idx(N) : cityMatrix[u][u] = 1

RowMajorBefore(p, q) == p[1] < q[1] \/ (p[1] = q[1] /\ p[2] < q[2])

StrictlyOrdered(s, Before(_, _)) ==
    \A i \in 1 .. Len(s), j \in 1 .. Len(s) : i < j => Before(s[i], s[j])

\* the pairs a pass that starts from snapshot prev sets
NewPairs(prev) ==
    {c \in Cells(N) :
        /\ c[1] # c[2]
        /\ prev[c[1]][c[2]] = 0
        /\ \E v \in Idx(N) : prev[c[1]][v] # 0 /\ cityMatrix[v][c[2]] # 0}

\* the first v of the snapshot row u through which (u, w) is found
FirstVia(prev, c) ==
    CHOOSE v \in Idx(N) :
        /\ prev[c[1]][v] # 0 /\ cityMatrix[v][c[2]] # 0
        /\ \A x \in Idx(N) : (prev[c[1]][x] # 0 /\ cityMatrix[x][c[2]] # 0) => v <= x

\* p is set before q in the loops over u, v, w ascending
LoopOrderBefore(p, q) ==
    \/ p[1] < q[1]
    \/ /\ p[1] = q[1]
       /\ \/ FirstVia(previous, p) < FirstVia(previous, q)
          \/ (FirstVia(previous, p) = FirstVia(previous, q) /\ p[2] < q[2])

DirectLines == SubSeq(emitted, 1, nDirect)

LastPassLines == SubSeq(emitted, passStart + 1, Len(emitted))

ChainMatrix == MatrixOf(3, {0 * 3 + 1, 1 * 3 + 2})

\* C3: the lines printed are first the cells that are 1 in the adjacency
\* matrix, in row-major order, and then, for every pass, exactly the pairs
\* that pass newly sets, in the order of the loops u, v, w ascending with v
\* taken from the snapshot of the pass; the chain 0 -> 1 -> 2 gives
\* (0,1),(1,2),(0,2).
C3_EmissionOrder ==
    /\ cpc \in {"create", "while", "done"} =>
          /\ Range(DirectLines) = {c \in Cells(N) : cityMatrix[c[1]][c[2]] = 1}
          /\ StrictlyOrdered(DirectLines, RowMajorBefore)
          /\ passStart = 0 \/ passStart >= nDirect
    /\ (cpc = "while" /\ passAdds # <<>>) =>
          /\ Range(LastPassLines) = NewPairs(previous)
          /\ StrictlyOrdered(LastPassLines, LoopOrderBefore)
          /\ Len(LastPassLines) = Last(passAdds)
    /\ (LoopExited /\ N = 3 /\ cityMatrix = ChainMatrix) =>
          emitted = << <<0, 1>>, <<1, 2>>, <<0, 2>> >>

\* a pass that printed two pairs of one row in another order than row-major,
\* after at least one direct edge
C3_Witness ==
    /\ cpc = "while" /\ passAdds # <<>> /\ nDirect > 0
    /\ \E i \in 1 .. Len(LastPassLines), j \in 1 .. Len(LastPassLines) :
          /\ i < j
          /\ LastPassLines[i][1] = LastPassLines[j][1]
          /\ LastPassLines[i][2] > LastPassLines[j][2]

\* C6: the while loop is left after at most N passes; every pass but the last
\* sets at least one pair and the last sets none; with N = 1 there is exactly
\* one pass and it sets nothing.
C6_AtMostNPasses ==
    /\ Len(passAdds) <= N
    /\ \A k \in 1 .. Len(passAdds) - 1 : passAdds[k] > 0
    /\ (cpc = "while" /\ repeat # 0 /\ passAdds # <<>>) => Last(passAdds) > 0
    /\ LoopExited => (passAdds # <<>> /\ Last(passAdds) = 0)
    /\ (LoopExited /\ N = 1) => passAdds = <<0>>

\* a run that needed three passes, the last of them empty
C6_Witness == LoopExited /\ Len(passAdds) = 3 /\ passAdds[2] > 0

\* transitiveClosure points to a live matrix (after line 333, before line 390)
ClosureLive == cpc \in {"print", "create", "while"}

\* C10: closure cells only change from 0 to 1, no pair is printed twice, when
\* the loop is left the printed pairs are the cells that are 1 in the closure
\* matrix, and a diagonal cell is 1 only if it is 1 in the adjacency matrix.
C10_ClosureInvariants ==
    /\ [](/\ Len(emitted) = Cardinality(EmittedPairs)
          /\ ClosureLive =>
                /\ \A c \in Cells(N) : transitiveClosure[c[1]][c[2]] \in {0, 1}
                /\ \A u \in Idx(N) :
                      transitiveClosure[u][u] = 1 => cityMatrix[u][u] = 1
          /\ (cpc = "while" /\ repeat = 0) =>
                EmittedPairs = {c \in Cells(N) : transitiveClosure[c[1]][c[2]] = 1})
    /\ [][(ClosureLive /\ ClosureLive') =>
             \A c \in Cells(N) :
                transitiveClosure[c[1]][c[2]] = 1 => transitiveClosure'[c[1]][c[2]] = 1]_vars

\* the loop was left after it set pairs, on a graph with a self-loop and with
\* a city on a cycle without one
C10_Witness ==
    /\ cpc = "while" /\ repeat = 0
    /\ Len(emitted) > nDirect
    /\ \E u \in Idx(N) : transitiveClosure[u][u] = 1
    /\ \E u \in Idx(N) : cityMatrix[u][u] = 0 /\ u \in WalkTargets(N, cityMatrix, u)

\* ------------------------------------------------------- SpecPath: findPath
\* the state of implementR at line 286, before the call: a loaded matrix, two
\* cities of the matrix, visited all zero, pathIndex 0
InitPath ==
    /\ N \in 1 .. MaxPathN
    /\ cityMatrix \in Matrices(N, MaxEdges)
    /\ sourceCity \in Idx(N)
    /\ destinationCity \in Idx(N)
    /\ dfs = NewSearch(N)
    /\ IdleClosure
    /\ IdleRun

PathFrame == UNCHANGED <<N, cityMatrix, sourceCity, destinationCity, cvars, rvars>>

\* line 286: findPath(sourceCity, destinationCity, visited, path, 0), lines 204-206
CallFindPath ==
    /\ dfs.pc = "idle"
    /\ dfs' = Enter(N, dfs, sourceCity, 0)
    /\ PathFrame

\* lines 210-220
FoundStep ==
    /\ CanFound(destinationCity, dfs)
    /\ dfs' = Found(dfs)
    /\ PathFrame

\* lines 223-224, the test fails
SkipStep ==
    /\ CanSkip(N, cityMatrix, destinationCity, dfs)
    /\ dfs' = Skip(dfs)
    /\ PathFrame

\* lines 224-225, then lines 204-206 of the callee
RecurStep ==
    /\ CanRecur(N, cityMatrix, destinationCity, dfs)
    /\ dfs' = Recur(N, dfs)
    /\ PathFrame

\* lines 225-226
CalleeFoundStep ==
    /\ CanCalleeFound(dfs)
    /\ dfs' = CalleeFound(dfs)
    /\ PathFrame

\* line 225 with a callee that returned 0
CalleeFailedStep ==
    /\ CanCalleeFailed(dfs)
    /\ dfs' = CalleeFailed(dfs)
    /\ PathFrame

\* lines 231-233
BacktrackStep ==
    /\ CanBacktrack(N, destinationCity, dfs)
    /\ dfs' = Backtrack(dfs)
    /\ PathFrame

\* line 286: the top-level call has returned
ReturnStep ==
    /\ CanReturn(dfs)
    /\ dfs' = Return(dfs)
    /\ PathFrame

NextPath ==
    \/ CallFindPath
    \/ FoundStep
    \/ SkipStep
    \/ RecurStep
    \/ CalleeFoundStep
    \/ CalleeFailedStep
    \/ BacktrackStep
    \/ ReturnStep

SpecPath == InitPath /\ [][NextPath]_vars

\* the process runs on while it has a step to take
SpecPathFair == SpecPath /\ WF_vars(NextPath)

\* --------------------------------------------------------- claims of SpecPath
PathDone == dfs.pc = "done"

\* the pairs calculateTransitiveClosure prints for the matrix of the search
ClosurePairs == Range(calculateTransitiveClosure(N, cityMatrix).out)

\* C2 as stated: findPath(s, d) returns 0 if and only if (s, d) is not among
\* the pairs calculateTransitiveClosure emits, also for s = d.
C2_NotFoundIffNotEmitted ==
    PathDone =>
        ((dfs.result = 0) <=> (<<sourceCity, destinationCity>> \notin ClosurePairs))

\* C2 as amended: for s # d, findPath(s, d) returns 0 if and only if (s, d) is
\* not among the emitted pairs; findPath(s, s) returns 1 for every s, while
\* (s, s) is emitted only if adjacency[s][s] = 1.
C2_NotFoundIffNotEmittedOffDiagonal ==
    PathDone =>
        /\ sourceCity # destinationCity =>
              ((dfs.result = 0) <=> (<<sourceCity, destinationCity>> \notin ClosurePairs))
        /\ sourceCity = destinationCity =>
              /\ dfs.result = 1
              /\ (<<sourceCity, sourceCity>> \in ClosurePairs) <=>
                    (cityMatrix[sourceCity][sourceCity] = 1)

\* a search between two different cities that backtracked and then found a
\* path of more than one edge
C2_Witness ==
    /\ PathDone /\ sourceCity # destinationCity
    /\ dfs.result = 1
    /\ Len(dfs.printed) >= 3
    /\ dfs.calls > Len(dfs.printed)

\* C4: findPath(s, s) returns 1 from its first invocation, without a
\* recursive call, and prints the path [s], with or without a self-loop at s.
C4_SameCityImmediate ==
    /\ (PathDone /\ sourceCity = destinationCity) =>
          /\ dfs.result = 1
          /\ dfs.calls = 1
          /\ dfs.printed = <<sourceCity>>
    /\ (sourceCity = destinationCity) => Len(dfs.stack) <= 1 /\ dfs.calls <= 1

\* findPath(s, s) has returned for a city s without a self-loop that has an
\* edge to another city
C4_Witness ==
    /\ PathDone /\ sourceCity = destinationCity
    /\ cityMatrix[sourceCity][sourceCity] = 0
    /\ \E x \in Idx(N) : x # sourceCity /\ cityMatrix[sourceCity][x] = 1

VisitedSet == {v \in Idx(N) : dfs.visited[v] # 0}

\* pathIndex of the call that is running (0 outside the top-level call)
CurrentPathIndex == IF dfs.stack = <<>> THEN 0 ELSE Top(dfs).pathIndex

InProgressPath == {dfs.path[k] : k \in 0 .. CurrentPathIndex - 1}

PathWasFound == dfs.ret = 1 \/ dfs.result = 1

\* C5: a path findPath reports starts at s, ends at d, has no city twice and
\* follows edges of the matrix; and at every point of the search the cities
\* marked visited are the cities of the in-progress path path[0..pathIndex).
\* The search is over when the destination is reached: from then on the
\* calls only return, and the marked cities are those of the reported path.
C5_PathAndVisited ==
    /\ PathWasFound =>
          /\ dfs.printed # <<>>
          /\ dfs.printed[1] = sourceCity
          /\ Last(dfs.printed) = destinationCity
          /\ Cardinality(Range(dfs.printed)) = Len(dfs.printed)
          /\ \A k \in 1 .. Len(dfs.printed) - 1 :
                cityMatrix[dfs.printed[k]][dfs.printed[k + 1]] # 0
          /\ VisitedSet = Range(dfs.printed)
    /\ ~PathWasFound =>
          /\ dfs.printed = <<>>
          /\ VisitedSet = InProgressPath
          /\ Cardinality(InProgressPath) = CurrentPathIndex

\* a search that backtracked, found a path of at least two edges and returned
C5_Witness ==
    /\ PathDone /\ dfs.result = 1
    /\ Len(dfs.printed) >= 3
    /\ dfs.calls > Len(dfs.printed) + 1

StackCities == {dfs.stack[k].source : k \in 1 .. Len(dfs.stack)}

\* C9: findPath terminates on every matrix, its recursion depth and pathIndex
\* never exceed N, path[] is never written past index N-1, and no city is
\* entered while it is on the search stack.
C9_TerminatesWithinN ==
    /\ [](/\ dfs.pc # "overflow"
          /\ Len(dfs.stack) <= N
          /\ \A k \in 1 .. Len(dfs.stack) :
                /\ dfs.stack[k].pathIndex = k
                /\ dfs.path[k - 1] = dfs.stack[k].source
          /\ Cardinality(StackCities) = Len(dfs.stack))
    /\ <>PathDone

\* the recursion is N >= 3 calls deep on a graph where the source lies on a cycle
C9_Witness ==
    /\ N >= 3
    /\ Len(dfs.stack) = N
    /\ sourceCity \in WalkTargets(N, cityMatrix, sourceCity)

\* ------------------------------------------------ SpecRun: the command line
\* an option as getopt hands it to run: its letter and, for -r, what
\* sscanf(optarg, "%d,%d", ...) makes of its argument ("operand" is a word
\* that is no option, which getopt passes over)
Option(letter, parsed, s, d) == [opt |-> letter, parsed |-> parsed, s |-> s, d |-> d]

Options(cities) ==
    {Option(l, 0, -1, -1) : l \in {"i", "p", "o", "?", "operand"}}
        \cup {Option("r", 0, -1, -1)}
        \cup {Option("r", 2, s, d) : s \in cities, d \in cities}

\* the input file: present and well formed, absent, without a leading
\* number, or with fewer than n*n numbers after it; canWrite tells whether
\* fopen(outputfile, "w+") of implementO succeeds
Files ==
    UNION {{[state |-> "ok", n |-> n, cells |-> m, canWrite |-> c] :
               m \in Matrices(n, n * n), c \in BOOLEAN}
              \cup {[state |-> st, n |-> n, cells |-> createMatrix(n), canWrite |-> TRUE] :
                       st \in {"missing", "noN", "short"}}
           : n \in 1 .. MaxRunN}

RECURSIVE SeqsUpTo(_, _)
SeqsUpTo(S, k) ==
    IF k = 0 THEN {<<>>}
    ELSE LET shorter == SeqsUpTo(S, k - 1)
         IN  shorter \cup {Append(q, x) : q \in shorter, x \in S}

\* the state at line 122: N and cityMatrix are zero-initialised globals
InitRun ==
    /\ N = 0
    /\ cityMatrix = NULL
    /\ file \in Files
    /\ argv \in SeqsUpTo(Options(IF file.state = "ok" THEN Idx(file.n) ELSE {0}), MaxArgs)
    /\ optind = 1
    /\ filename = NULL
    /\ heap = <<>> /\ out = <<>> /\ err = <<>> /\ status = "running"
    /\ engineRuns = <<>>
    /\ sourceCity = -1 /\ destinationCity = -1 /\ dfs = NULL
    /\ IdleClosure

\* what a read through a null FILE pointer, or strlen of a null pointer, can
\* do: the process is killed by a signal, or the library call fails and the
\* caller takes its error exit
NullStreamOutcomes == {"crash", "exit_failure"}

NullStringOutcomes == {"crash"}

\* the next word of the command line is the option `letter`
AtOption(letter) ==
    /\ status = "running"
    /\ optind <= Len(argv)
    /\ argv[optind].opt = letter

\* exit(EXIT_FAILURE) after a message of kind `kind` on the error stream
Fail(kind) ==
    /\ err' = Append(err, kind)
    /\ status' = "exit_failure"

\* lines 181-200 on an open file f: "noN" and "short" end in exit(EXIT_FAILURE)
\* (the second after createMatrix), "ok" leaves the matrix in cityMatrix
ReadFails(f) == f.state \in {"noN", "short"}

ReadError(f) == IF f.state = "noN" THEN "read_N" ELSE "read_matrix"

\* the lines printf writes for the matrix, lines 255-262
NeighborTable(n, m) ==
    <<"Neighbor table">> \o [i \in 1 .. n |-> [j \in 1 .. n |-> m[i - 1][j - 1]]]

\* lines 286-287 and 211-219: what implementR prints for a finished search
PathReport(st) ==
    IF st.result # 0 THEN <<"Yes Path Exists!", st.printed>> ELSE <<"No Path Exists!">>

\* lines 127-131
NoArguments ==
    /\ status = "running"
    /\ argv = <<>>
    /\ Fail("usage")
    /\ UNCHANGED <<N, cityMatrix, cvars, pvars, argv, optind, filename, file, heap,
                   out, engineRuns>>

\* getopt passes over a word that is no option
SkipOperand ==
    /\ AtOption("operand")
    /\ optind' = optind + 1
    /\ UNCHANGED <<N, cityMatrix, cvars, pvars, argv, filename, file, heap, out, err,
                   status, engineRuns>>

\* lines 237-266
implementI ==
    /\ AtOption("i")
    /\ optind' = optind + 1
    /\ filename' = "f"
    /\ IF file.state = "missing"
       THEN /\ Fail("open")
            /\ UNCHANGED <<N, cityMatrix, heap, out>>
       ELSE IF ReadFails(file)
       THEN /\ Fail(ReadError(file))
            /\ N' = (IF file.state = "noN" THEN N ELSE file.n)
            /\ heap' = (IF file.state = "noN" THEN heap ELSE Append(heap, "live"))
            /\ UNCHANGED <<cityMatrix, out>>
       ELSE /\ N' = file.n
            /\ cityMatrix' = file.cells
            /\ out' = out \o NeighborTable(file.n, file.cells)
            /\ heap' = Append(heap, "freed")
            /\ UNCHANGED <<err, status>>
    /\ UNCHANGED <<cvars, pvars, argv, file, engineRuns>>

\* lines 269-291
implementR ==
    /\ AtOption("r")
    /\ optind' = optind + 1
    /\ LET o == argv[optind]
       IN  IF o.parsed # 2
           THEN /\ Fail("invalid_cities")
                /\ UNCHANGED <<N, cityMatrix, heap, out, pvars, engineRuns>>
           ELSE IF filename = NULL
           THEN /\ status' \in NullStreamOutcomes
                /\ err' = (IF status' = "crash" THEN err ELSE Append(err, "read_N"))
                /\ sourceCity' = o.s
                /\ destinationCity' = o.d
                /\ UNCHANGED <<N, cityMatrix, heap, out, dfs, engineRuns>>
           ELSE IF ReadFails(file)
           THEN /\ Fail(ReadError(file))
                /\ UNCHANGED <<N, cityMatrix, heap, out, pvars, engineRuns>>
           ELSE /\ N' = file.n
                /\ cityMatrix' = file.cells
                /\ heap' = Append(heap, "live")
                /\ sourceCity' = o.s
                /\ destinationCity' = o.d
                /\ dfs' = RunFindPath(file.n, file.cells, o.s, o.d, NewSearch(file.n))
                /\ out' = out \o PathReport(dfs')
                /\ engineRuns' = Append(engineRuns, "findPath")
                /\ UNCHANGED <<err, status>>
    /\ UNCHANGED <<cvars, argv, filename, file>>

\* lines 296-301 of implementP and 318-322 of implementO: load the file, print
\* the header and the closure; the matrices of lines 333 and 355 are freed at
\* lines 390-391, the one of line 188 is not
LoadAndClose(after) ==
    IF filename = NULL
    THEN /\ status' \in NullStreamOutcomes
         /\ err' = (IF status' = "crash" THEN err ELSE Append(err, "read_N"))
         /\ UNCHANGED <<N, cityMatrix, heap, out, engineRuns>>
    ELSE IF ReadFails(file)
    THEN /\ Fail(ReadError(file))
         /\ UNCHANGED <<N, cityMatrix, heap, out, engineRuns>>
    ELSE /\ N' = file.n
         /\ cityMatrix' = file.cells
         /\ heap' = heap \o <<"live", "freed", "freed">>
         /\ out' = out \o <<"R* table">>
                       \o calculateTransitiveClosure(file.n, file.cells).out
                       \o after
         /\ engineRuns' = Append(engineRuns, "calculateTransitiveClosure")
         /\ UNCHANGED <<err, status>>

\* lines 293-302
implementP ==
    /\ AtOption("p")
    /\ optind' = optind + 1
    /\ LoadAndClose(<<>>)
    /\ UNCHANGED <<cvars, pvars, argv, filename, file>>

\* lines 304-326: strlen(*filename) comes first, then the output file is opened
implementO ==
    /\ AtOption("o")
    /\ optind' = optind + 1
    /\ IF filename = NULL
       THEN /\ status' \in NullStringOutcomes
            /\ UNCHANGED <<N, cityMatrix, heap, out, err, engineRuns>>
       ELSE IF ~file.canWrite
       THEN /\ Fail("open_output")
            /\ UNCHANGED <<N, cityMatrix, heap, out, engineRuns>>
       ELSE LoadAndClose(<<"Saving out-f...">>)
    /\ UNCHANGED <<cvars, pvars, argv, filename, file>>

\* lines 147-149
UnknownOption ==
    /\ AtOption("?")
    /\ optind' = optind + 1
    /\ Fail("usage")
    /\ UNCHANGED <<N, cityMatrix, cvars, pvars, argv, filename, file, heap, out,
                   engineRuns>>

\* line 133 with getopt returning -1, then lines 154-160 and line 119
EndOfOptions ==
    /\ status = "running"
    /\ argv # <<>>
    /\ optind > Len(argv)
    /\ IF filename = NULL
       THEN Fail("usage")
       ELSE status' = "returned" /\ UNCHANGED err
    /\ UNCHANGED <<N, cityMatrix, cvars, pvars, argv, optind, filename, file, heap,
                   out, engineRuns>>

NextRun ==
    \/ NoArguments
    \/ SkipOperand
    \/ implementI
    \/ implementR
    \/ implementP
    \/ implementO
    \/ UnknownOption
    \/ EndOfOptions

SpecRun == InitRun /\ [][NextRun]_vars

\* ---------------------------------------------------------- claims of SpecRun
\* option k has been handled and no -i was handled before it
HandledWithoutInput(k) ==
    /\ k < optind
    /\ argv[k].opt \in {"r", "p", "o"}
    /\ \A j \in 1 .. k - 1 : argv[j].opt # "i"

\* C7: when a -r, -p or -o option is handled and no -i option was handled
\* before it, the run ends with a message on the error stream and a non-zero
\* exit status, nothing has been printed, and neither engine has run.
C7_MissingInputIsUsageError ==
    \A k \in 1 .. Len(argv) :
        HandledWithoutInput(k) =>
            /\ status = "exit_failure"
            /\ err # <<>>
            /\ out = <<>>
            /\ engineRuns = <<>>

\* C8: between two operations, and when the run returns, no matrix that an
\* operation allocated is still live.
C8_NoLiveMatrixBetweenOperations ==
    status \in {"running", "returned"} =>
        \A k \in 1 .. Len(heap) : heap[k] = "freed"

====
